---- MODULE Spec2Model ----
(***************************************************************************)
(* A model of the recommender abstraction layer of RecLab as committed:    *)
(*   RatingMatrix        src/reclab/recommenders/recommender.py  216-297   *)
(*   PredictRecommender  src/reclab/recommenders/recommender.py   71-214   *)
(*   KNNRecommender      src/reclab/recommenders/knn_recommender.py        *)
(*                                                                         *)
(* The commit is work in progress and the model follows it statement by    *)
(* statement, exceptions included.  recommender.py imports abc and nothing *)
(* else (l.8), so scipy, collections, np and itertools are names bound     *)
(* nowhere:                                                                *)
(*   l.226  `scipy.sparse.dok_matrix((0, 0))`: RatingMatrix() raises       *)
(*          NameError before an attribute is bound.  No RatingMatrix       *)
(*          exists, and none of its methods (l.235-297, of which l.279-297 *)
(*          do not parse) is ever called.                                  *)
(*   l.107  `self._ratings = RatingMatrix()`: reset raises that NameError  *)
(*          after l.103 and l.105 emptied _users and _items.  _ratings     *)
(*          stays the dict of l.82, the defaultdicts of l.109-113 are      *)
(*          never bound and l.114, the call of update, is not reached.     *)
(*   l.139  `self._ratings.update(ratings)`: _ratings is the dict of l.82  *)
(*          and takes the ratings, before the loop of l.140-146.           *)
(*   l.143  `self._user_items`, bound by l.111 only: AttributeError.       *)
(*   l.148  the parameter is `users_contexts`, l.173 reads `user_contexts`:*)
(*          recommend raises NameError.                                    *)
(*   knn l.80 defines `_predict`, so `predict` (recommender.py l.196-214)  *)
(*          stays abstract and KNNRecommender(...) raises TypeError: no    *)
(*          KNNRecommender object exists and none of its methods runs.     *)
(* The recommender object of the model is an instance of a subclass of     *)
(* PredictRecommender that supplies predict.  The functions of             *)
(* knn_recommender.py at module level (nlargest_indices, divide_zero,      *)
(* cosine_similarity) do not depend on the classes and are modelled as     *)
(* operators.                                                              *)
(***************************************************************************)
EXTENDS Integers, Sequences, FiniteSets, TLC

(***************************************************************************)
(* Bounds of the model.                                                    *)
(***************************************************************************)
MaxCalls == 2
MaxRating == 2
MaxLen == 3

(***************************************************************************)
(* Ids.  Python ids are arbitrary hashable objects; an id is modelled as   *)
(* <<type, n>>.                                                            *)
(***************************************************************************)
IntId(n) == <<"int", n>>
StrId(n) == <<"str", n>>

isinstance_int(x) == x[1] = "int"

UserIds == {IntId(0), IntId(1), StrId(0)}
ItemIds == {IntId(0), IntId(1)}

\* Python None as the ratings argument: a value that is no dict
None == <<<<>>>>

(***************************************************************************)
(* Python dict, insertion ordered: a sequence of <<key, value>> entries    *)
(* with distinct keys.                                                     *)
(***************************************************************************)
Range(s) == {s[k] : k \in DOMAIN s}

Keys(d) == {d[k][1] : k \in DOMAIN d}

Lookup(d, key) == (CHOOSE k \in DOMAIN d : d[k][1] = key)

DictGet(d, key) == d[Lookup(d, key)][2]

\* d[key] = value that adds an entry even when the key has one
DictSet_append(d, key, value) == Append(d, <<key, value>>)

\* d[key] = value
DictSet(d, key, value) ==
    IF key \in Keys(d)
    THEN [d EXCEPT ![Lookup(d, key)] = <<key, value>>]
    ELSE Append(d, <<key, value>>)

\* d.update(other)
RECURSIVE DictUpdate(_, _)
DictUpdate(d, other) ==
    IF other = <<>> THEN d
    ELSE DictUpdate(DictSet(d, Head(other)[1], Head(other)[2]), Tail(other))

(***************************************************************************)
(* RatingMatrix.                                                           *)
(***************************************************************************)
\* RatingMatrix() (l.224-233): the exception of the call.  l.226, the first
\* statement of __init__, reads the name scipy, which is bound nowhere.
RatingMatrix_init == "NameError"

(***************************************************************************)
(* PredictRecommender.  An object is a record of its fields; err is the    *)
(* exception the last call raised ("none" when it returned).  ratings is   *)
(* _ratings, the dict of l.82.  The three defaultdicts of l.109-113 are    *)
(* bound on no object; they are kept as fields that read as empty, for the *)
(* claims that speak of them.  writes counts, for every pair, the ratings  *)
(* put into _ratings for it (a history of the model, not a field).         *)
(***************************************************************************)
Pairs == UserIds \X ItemIds

\* PredictRecommender.__init__ (l.78-82)
Constructed ==
    [users |-> <<>>,
     items |-> <<>>,
     ratings |-> <<>>,
     rating_contexts |-> [p \in Pairs |-> <<>>],
     user_items |-> [u \in UserIds |-> {}],
     item_users |-> [i \in ItemIds |-> {}],
     writes |-> [p \in Pairs |-> 0],
     err |-> "none"]

\* a ratings dict as Python holds it: key (user_id, item_id), value
\* (rating, context); an argument entry is <<user_id, item_id, rating, context>>
AsDict(ratings) ==
    [k \in DOMAIN ratings |->
        <<<<ratings[k][1], ratings[k][2]>>, <<ratings[k][3], ratings[k][4]>>>>]

RatedPairs(rated) == {<<rated[k][1], rated[k][2]>> : k \in DOMAIN rated}

\* l.139-146 of update, for ratings that is not None.  l.139 puts the
\* ratings into the dict, then the loop starts: the asserts of l.141-142 on
\* the first rating, and l.143 raises on _user_items.
update_ratings(s, ratings) ==
    LET s1 == [s EXCEPT
                 !.ratings = DictUpdate(@, AsDict(ratings)),
                 !.writes = [p \in Pairs |->
                                IF p \in RatedPairs(ratings) THEN @[p] + 1
                                ELSE @[p]]]
    IN  IF ratings = <<>> THEN s1
        ELSE IF Head(ratings)[1] \notin Keys(s1.users)
        THEN [s1 EXCEPT !.err = "AssertionError"]
        ELSE IF Head(ratings)[2] \notin Keys(s1.items)
        THEN [s1 EXCEPT !.err = "AssertionError"]
        ELSE [s1 EXCEPT !.err = "AttributeError"]

\* PredictRecommender.update binding _users and _items to the arguments
\* instead of merging them
PredictRecommender_update_assign(s, users, items, ratings) ==
    LET merged == [s EXCEPT !.users = users, !.items = items, !.err = "none"]
    IN  IF ratings = None THEN merged ELSE update_ratings(merged, ratings)

\* PredictRecommender.update (l.134-146).  For users and items None and the
\* empty dict have the same effect, both are the empty sequence here.
PredictRecommender_update(s, users, items, ratings) ==
    LET merged == [s EXCEPT !.users = DictUpdate(@, users),
                            !.items = DictUpdate(@, items),
                            !.err = "none"]
    IN  IF ratings = None THEN merged ELSE update_ratings(merged, ratings)

\* l.102-105 of reset: _users and _items are rebound to empty dicts
reset_fields(s) == [s EXCEPT !.users = <<>>, !.items = <<>>]

\* PredictRecommender.reset (l.84-114): l.103 and l.105, then l.107 calls
\* RatingMatrix(), which raises.  _ratings stays, and users, items and
\* ratings, which only l.114 would hand to update, are not used.
PredictRecommender_reset(s, users, items, ratings) ==
    [reset_fields(s) EXCEPT !.err = RatingMatrix_init]

\* PredictRecommender.recommend (l.148-194): the exception, the two arrays
\* returned and the request made to predict.  l.171-172 bind two empty
\* lists and l.173 reads user_contexts, a name that is bound nowhere (the
\* parameter is users_contexts): NameError on every call, before predict
\* is asked anything.  predictions stands for what predict would answer.
recommend(s, user_contexts, num_recommendations, predictions) ==
    [err |-> "NameError", recs |-> <<>>, predicted_ratings |-> <<>>,
     ratings_to_predict |-> <<>>]

(***************************************************************************)
(* KNNRecommender.  A class can be instantiated when every abstract method *)
(* it inherits is defined in it.                                           *)
(***************************************************************************)
\* the abstract methods PredictRecommender leaves (l.196-214): it defines
\* reset, update and recommend of Recommender (l.14-68) and declares predict
PredictRecommender_abstractmethods == {"predict"}

\* the methods the class statement of KNNRecommender defines (l.32-114)
KNNRecommender_defines == {"__init__", "name", "reset", "update", "_predict"}

\* KNNRecommender(...): the exception of the call
KNNRecommender_new ==
    IF PredictRecommender_abstractmethods \ KNNRecommender_defines # {}
    THEN "TypeError" ELSE "AttributeError"

(***************************************************************************)
(* The functions of knn_recommender.py at module level.  A numpy array is  *)
(* its dtype ("int" or "float") and its values, a function of the          *)
(* positions: 1..n for an array of one axis, pairs for one of two.  A      *)
(* sparse matrix is its dtype, its shape and the value at every position.  *)
(* The values are whole numbers, also those of dtype float; a quotient is  *)
(* the exact fraction <<n, d>> in lowest terms with d > 0.  The matrices   *)
(* handed to cosine_similarity have rows of whole norm, so that every      *)
(* number of the model is rational.                                        *)
(***************************************************************************)
Abs(a) == IF a < 0 THEN -a ELSE a

RECURSIVE Gcd(_, _)
Gcd(a, b) == IF b = 0 THEN a ELSE Gcd(b, a % b)

RECURSIVE SumSeq(_)
SumSeq(s) == IF s = <<>> THEN 0 ELSE Head(s) + SumSeq(Tail(s))

\* n / d of np.divide, d # 0
Quotient(n, d) ==
    LET sign == IF d < 0 THEN -1 ELSE 1
        g == Gcd(Abs(n), Abs(d))
    IN  <<(sign * n) \div g, (sign * d) \div g>>

\* the dtype np.divide computes in: true division gives floats, of ints too
divide_dtype(num_dtype, denom_dtype) == "float"

\* np.divide can write results of dtype `from` to an array of dtype `to`
\* (casting rule same_kind: a float is not written to an int array)
can_cast(from, to) == ~(from = "float" /\ to = "int")

\* divide_zero(num, denom) (l.166-169): the exception and the array
\* returned.  out is np.zeros_like(num), of the dtype of num; np.divide
\* raises when its results cannot be cast to it, and else writes
\* num / denom where denom != 0 and leaves the 0 of out elsewhere.
divide_zero(num, denom) ==
    IF ~can_cast(divide_dtype(num.dtype, denom.dtype), num.dtype)
    THEN [err |-> "UFuncTypeError", out |-> <<>>]
    ELSE [err |-> "none",
          out |-> [k \in DOMAIN num.val |->
                      IF denom.val[k] # 0 THEN Quotient(num.val[k], denom.val[k])
                      ELSE <<0, 1>>]]

Grid(shape) == (0..(shape[1] - 1)) \X (0..(shape[2] - 1))

Row(m, r) == [c \in 1..m.shape[2] |-> m.val[<<r, c - 1>>]]

Dot(x, y) == SumSeq([k \in DOMAIN x |-> x[k] * y[k]])

\* the norm of a row, for rows of whole norm
Norm(x) == CHOOSE n \in 0..Dot(x, x) : n * n = Dot(x, x)

\* the dtype of X @ Y.T: int when both are int
matmul_dtype(a, b) == IF a = "int" /\ b = "int" THEN "int" ELSE "float"

\* cosine_similarity(X, Y, shrinkage) (l.117-137): divide_zero of
\* (X @ Y.T).A and the products of the norms, floats, plus shrinkage
cosine_similarity(X, Y, shrinkage) ==
    LET positions == (0..(X.shape[1] - 1)) \X (0..(Y.shape[1] - 1))
    IN  divide_zero(
            [dtype |-> matmul_dtype(X.dtype, Y.dtype),
             val |-> [p \in positions |-> Dot(Row(X, p[1]), Row(Y, p[2]))]],
            [dtype |-> "float",
             val |-> [p \in positions |->
                         Norm(Row(X, p[1])) * Norm(Row(Y, p[2])) + shrinkage]])

\* nlargest_indices that puts the later of two equal values first
nlargest_indices_ties_last(n, iterable) ==
    LET before(j) == {k \in DOMAIN iterable :
                         \/ iterable[j] < iterable[k]
                         \/ iterable[k] = iterable[j] /\ k > j}
        size == IF n < Len(iterable) THEN n ELSE Len(iterable)
    IN  [p \in 1..size |->
            (CHOOSE j \in DOMAIN iterable : Cardinality(before(j)) = p - 1) - 1]

\* nlargest_indices(n, iterable) (l.140-158): heapq.nlargest is
\* sorted(..., reverse=True)[:n], which keeps equal values in their order.
\* iterable[k + 1] is the value at index k; the result holds indices.
nlargest_indices(n, iterable) ==
    LET before(j) == {k \in DOMAIN iterable :
                         \/ iterable[j] < iterable[k]
                         \/ iterable[k] = iterable[j] /\ k < j}
        size == IF n < Len(iterable) THEN n ELSE Len(iterable)
    IN  [p \in 1..size |->
            (CHOOSE j \in DOMAIN iterable : Cardinality(before(j)) = p - 1) - 1]

(***************************************************************************)
(* The state: the fields of one recommender, the last call made (op), its  *)
(* arguments and result where it is a call of a function (args, result),   *)
(* and the number of calls so far.                                         *)
(***************************************************************************)
VARIABLES users, items, ratings, rating_contexts, user_items, item_users,
          err, op, args, result, calls, writes, latest

fields == <<users, items, ratings, rating_contexts, user_items, item_users, err>>

\* history variables: writes (above) and latest, the rating each pair has
\* in the ratings of the most recent call of update or reset whose ratings
\* held the pair (0: no such call)
history == <<writes, latest>>

vars == <<fields, op, args, result, calls, history>>

\* the object as a record
Self ==
    [users |-> users, items |-> items, ratings |-> ratings,
     rating_contexts |-> rating_contexts, user_items |-> user_items,
     item_users |-> item_users, writes |-> writes, err |-> err]

Becomes(s) ==
    /\ users' = s.users
    /\ items' = s.items
    /\ ratings' = s.ratings
    /\ rating_contexts' = s.rating_contexts
    /\ user_items' = s.user_items
    /\ item_users' = s.item_users
    /\ writes' = s.writes
    /\ err' = s.err

Init ==
    /\ users = Constructed.users
    /\ items = Constructed.items
    /\ ratings = Constructed.ratings
    /\ rating_contexts = Constructed.rating_contexts
    /\ user_items = Constructed.user_items
    /\ item_users = Constructed.item_users
    /\ writes = Constructed.writes
    /\ err = Constructed.err
    /\ op = "init"
    /\ args = <<>>
    /\ result = <<>>
    /\ latest = [p \in Pairs |-> 0]
    /\ calls = 0

\* the ratings a call was given, None read as no rating
RatingsOf(ratings_arg) == IF ratings_arg = None THEN <<>> ELSE ratings_arg

\* latest after a call of update or reset with the ratings rated
Given(old, rated) ==
    [p \in Pairs |->
        IF \E k \in DOMAIN rated : <<rated[k][1], rated[k][2]>> = p
        THEN rated[CHOOSE k \in DOMAIN rated : <<rated[k][1], rated[k][2]>> = p][3]
        ELSE old[p]]

\* recommender.update(users, items, ratings)
Update(a) ==
    /\ calls < MaxCalls
    /\ Becomes(PredictRecommender_update(Self, a.users, a.items, a.ratings))
    /\ latest' = Given(latest, RatingsOf(a.ratings))
    /\ op' = "update"
    /\ calls' = calls + 1
    /\ UNCHANGED <<args, result>>

\* recommender.reset(users, items, ratings)
Reset(a) ==
    /\ calls < MaxCalls
    /\ Becomes(PredictRecommender_reset(Self, a.users, a.items, a.ratings))
    /\ latest' = Given(latest, RatingsOf(a.ratings))
    /\ op' = "reset"
    /\ calls' = calls + 1
    /\ UNCHANGED <<args, result>>

\* recommender.recommend(user_contexts, num_recommendations), predict
\* ready to answer with predictions.  The fields stay.
Recommend(user_contexts, num_recommendations, predictions) ==
    /\ calls < MaxCalls
    /\ err' = recommend(Self, user_contexts, num_recommendations, predictions).err
    /\ op' = "recommend"
    /\ calls' = calls + 1
    /\ UNCHANGED <<users, items, ratings, rating_contexts, user_items,
                   item_users, args, result, history>>

\* RatingMatrix() called next to the recommender, which stays
NewRatingMatrix ==
    /\ calls < MaxCalls
    /\ err' = RatingMatrix_init
    /\ op' = "RatingMatrix"
    /\ calls' = calls + 1
    /\ UNCHANGED <<users, items, ratings, rating_contexts, user_items,
                   item_users, args, result, history>>

\* KNNRecommender(...) called next to the recommender, which stays
NewKNNRecommender ==
    /\ calls < MaxCalls
    /\ err' = KNNRecommender_new
    /\ op' = "KNNRecommender"
    /\ calls' = calls + 1
    /\ UNCHANGED <<users, items, ratings, rating_contexts, user_items,
                   item_users, args, result, history>>

(***************************************************************************)
(* The calls of the model.  A call's users / items are ordered dicts of    *)
(* <<id, features>>; its ratings None or an ordered dict of                *)
(* <<user_id, item_id, rating, context>>.                                  *)
(***************************************************************************)
\* the sequences of at most n distinct elements of S
DistinctSeqs(S, n) ==
    {q \in UNION {[1..m -> S] : m \in 0..n} :
        \A a, b \in DOMAIN q : a # b => q[a] # q[b]}

Dict(q, f) == [k \in DOMAIN q |-> <<q[k], f>>]

\* users: nothing, one user, or user 0 with the other feature vector
UsersArgs ==
    {Dict(q, 0) : q \in DistinctSeqs(UserIds, 1)} \cup {Dict(<<IntId(0)>>, 1)}

\* items: nothing, one item, or both
ItemsArgs ==
    {Dict(q, 0) : q \in DistinctSeqs(ItemIds, 1)}
        \cup {Dict(<<IntId(0), IntId(1)>>, 0)}

\* ratings: None, the empty dict, one rating in context 0 (1, or any rating
\* of item 0 by user 0), or user 0 rating both items (the second in
\* context 1)
RatingsArgs ==
    {None, <<>>}
        \cup {<<<<p[1], p[2], 1, 0>>>> : p \in Pairs}
        \cup {<<<<IntId(0), IntId(0), r, 0>>>> : r \in 1..MaxRating}
        \cup {<<<<IntId(0), IntId(0), MaxRating, 0>>, <<IntId(0), IntId(1), 1, 1>>>>}

\* The calls: users and items alone, ratings alone, and one user and one
\* item together with a rating of that item by that user in context 0
CallArgs ==
    {a \in [users : UsersArgs, items : ItemsArgs, ratings : RatingsArgs] :
        \/ a.ratings \in {None, <<>>}
        \/ a.users = <<>> /\ a.items = <<>>
        \/ /\ Len(a.users) = 1 /\ Len(a.items) = 1 /\ Len(a.ratings) = 1
           /\ a.ratings[1][1] = a.users[1][1]
           /\ a.ratings[1][2] = a.items[1][1]
           /\ a.ratings[1][4] = 0}

\* recommend is asked for one user or two, for 1..MaxRecs items, predict
\* ready to answer any values of PredValues
MaxRecs == 2
PredValues == {0, 1}

UserContextArgs ==
    {[k \in DOMAIN q |-> <<q[k], k - 1>>] :
        q \in DistinctSeqs(UserIds, 2) \ {<<>>}}

\* what predict answers: a value for every item, the same for every user
PredictionsArgs ==
    {[p \in Pairs |-> f[p[2]]] : f \in [ItemIds -> PredValues]}

Next ==
    \/ \E a \in CallArgs : Update(a)
    \/ \E a \in CallArgs : Reset(a)
    \/ \E uc \in UserContextArgs, k \in 1..MaxRecs, predictions \in PredictionsArgs :
          Recommend(uc, k, predictions)
    \/ NewRatingMatrix
    \/ NewKNNRecommender

Spec == Init /\ [][Next]_vars

(***************************************************************************)
(* The functions on their own (SpecFn): one of them is called with         *)
(* arguments of the sets below, and the result is kept.                    *)
(***************************************************************************)
Values == (-1)..MaxRating

\* arrays of at most MaxLen values
ValueSeqs == UNION {[1..m -> Values] : m \in 0..MaxLen}

DTypes == {"int", "float"}

\* the numerators and denominators of divide_zero, arrays of one or two
\* elements
NumSeqs(m) ==
    {[dtype |-> t, val |-> v] :
        t \in DTypes, v \in [1..m -> (-MaxRating)..MaxRating]}

DenomSeqs(m) ==
    {[dtype |-> t, val |-> v] : t \in DTypes, v \in [1..m -> (-1)..MaxRating]}

\* matrices of one or two rows and c columns, of the three values, every
\* row of whole norm
MatValues == {-1, 0, 1}

WholeNorm(x) == \E n \in 0..Dot(x, x) : n * n = Dot(x, x)

Matrices(c) ==
    UNION {{[dtype |-> t, shape |-> <<r, c>>, val |-> v] :
               t \in DTypes,
               v \in {w \in [Grid(<<r, c>>) -> MatValues] :
                         \A k \in 0..(r - 1) :
                             WholeNorm(Row([shape |-> <<r, c>>, val |-> w], k))}} :
              r \in 1..2}

Shrinkages == {-1, 0, 1}

\* the calls: the name of the function and its arguments
FnArgs ==
    {<<"nlargest_indices", n, iterable>> :
        n \in 0..(MaxLen + 1), iterable \in ValueSeqs}
    \cup UNION {{<<"divide_zero", num, denom>> :
                    num \in NumSeqs(m), denom \in DenomSeqs(m)} : m \in 1..2}
    \cup UNION {{<<"cosine_similarity", X, Y, shrinkage>> :
                    X \in Matrices(c), Y \in Matrices(c), shrinkage \in Shrinkages} :
                 c \in 1..2}

\* a call is about to be made
InitFn ==
    /\ users = Constructed.users
    /\ items = Constructed.items
    /\ ratings = Constructed.ratings
    /\ rating_contexts = Constructed.rating_contexts
    /\ user_items = Constructed.user_items
    /\ item_users = Constructed.item_users
    /\ writes = Constructed.writes
    /\ err = Constructed.err
    /\ op = "init"
    /\ args \in FnArgs
    /\ result = <<>>
    /\ latest = [p \in Pairs |-> 0]
    /\ calls = 0

\* nlargest_indices(n, iterable)
NLargestIndices ==
    /\ op = "init"
    /\ args[1] = "nlargest_indices"
    /\ op' = "nlargest_indices"
    /\ result' = nlargest_indices(args[2], args[3])
    /\ calls' = calls + 1
    /\ UNCHANGED <<fields, history, args>>

\* divide_zero(num, denom) on two arrays of one length
DivideZero ==
    /\ op = "init"
    /\ args[1] = "divide_zero"
    /\ op' = "divide_zero"
    /\ err' = divide_zero(args[2], args[3]).err
    /\ result' = divide_zero(args[2], args[3]).out
    /\ calls' = calls + 1
    /\ UNCHANGED <<users, items, ratings, rating_contexts, user_items,
                   item_users, history, args>>

\* cosine_similarity(X, Y, shrinkage), X and Y of as many columns
CosineSimilarity ==
    /\ op = "init"
    /\ args[1] = "cosine_similarity"
    /\ op' = "cosine_similarity"
    /\ err' = cosine_similarity(args[2], args[3], args[4]).err
    /\ result' = cosine_similarity(args[2], args[3], args[4]).out
    /\ calls' = calls + 1
    /\ UNCHANGED <<users, items, ratings, rating_contexts, user_items,
                   item_users, history, args>>

NextFn ==
    \/ NLargestIndices
    \/ DivideZero
    \/ CosineSimilarity

SpecFn == InitFn /\ [][NextFn]_vars

(***************************************************************************)
(* Claims about update and reset (Spec).  The claims that speak of a call  *)
(* and its arguments are stated for every call the model can make in the   *)
(* state: After(a) is the object after update(a.users, a.items, a.ratings),*)
(* AfterReset(a) after reset(...).                                         *)
(***************************************************************************)
After(a) == PredictRecommender_update(Self, a.users, a.items, a.ratings)

AfterReset(a) == PredictRecommender_reset(Self, a.users, a.items, a.ratings)

\* the rating _ratings of object s holds for the pair, 0 if it holds none
Stored(s, p) ==
    IF p \in Keys(s.ratings) THEN DictGet(s.ratings, p)[1] ELSE 0

HasRating(s, p) == Stored(s, p) # 0

\* C1 (as claimed): after update and reset calls, i is in user_items[u] iff
\* u is in item_users[i] iff the rating store holds a rating for (u, i).
C1_RatedSetSymmetry ==
    (op \in {"update", "reset"} /\ err = "none") =>
        \A p \in Pairs :
            /\ p[2] \in user_items[p[1]] <=> p[1] \in item_users[p[2]]
            /\ p[2] \in user_items[p[1]] <=> HasRating(Self, p)

\* C4 (as claimed): every pair with a rating, a rated-set entry or a
\* context history has a known user and a known item, and an update with a
\* rating whose user or item is not known once the call's users and items
\* are merged raises and writes nothing for that rating.
C4_RatingsOnlyForKnownIds ==
    /\ \A p \in Pairs :
          (\/ HasRating(Self, p)
           \/ p[2] \in user_items[p[1]]
           \/ p[1] \in item_users[p[2]]
           \/ rating_contexts[p] # <<>>)
          => (p[1] \in Keys(users) /\ p[2] \in Keys(items))
    /\ \A a \in CallArgs :
          LET after == After(a)
              known_users == Keys(DictUpdate(users, a.users))
              known_items == Keys(DictUpdate(items, a.items))
              rated == RatingsOf(a.ratings)
          IN  \A k \in DOMAIN rated :
                  LET p == <<rated[k][1], rated[k][2]>> IN
                  (p[1] \notin known_users \/ p[2] \notin known_items)
                  => /\ after.err # "none"
                     /\ Stored(after, p) = Stored(Self, p)
                     /\ after.rating_contexts[p] = rating_contexts[p]
                     /\ p[2] \in after.user_items[p[1]] <=> p[2] \in user_items[p[1]]
                     /\ p[1] \in after.item_users[p[2]] <=> p[1] \in item_users[p[2]]

\* C5 (as claimed): an update that raises leaves the recommender as it was
\* before the call.
C5_FailedUpdateKeepsState ==
    [][(op' = "update" /\ err' # "none") =>
          UNCHANGED <<users, items, ratings, rating_contexts, user_items,
                      item_users>>]_vars

\* a recommender that holds nothing: one that was just built
EmptyRecommender == Constructed

\* C6 (as claimed): whatever the recommender holds, reset(users, items,
\* ratings) returns as update(users, items, ratings) does of an empty
\* recommender and leaves what that update leaves: known users and items,
\* rating store, rated sets and context histories.
C6_ResetDiscardsPriorState ==
    \A a \in CallArgs :
        AfterReset(a) =
            PredictRecommender_update(EmptyRecommender, a.users, a.items, a.ratings)

\* C7: an update that returns keeps every known user and item, and for the
\* pairs that are not in its ratings it keeps the rating, the membership in
\* the rated sets and the context history.
C7_UpdateKeepsData ==
    \A a \in CallArgs :
        LET after == After(a) IN
        after.err = "none" =>
            /\ Keys(users) \subseteq Keys(after.users)
            /\ Keys(items) \subseteq Keys(after.items)
            /\ \A p \in Pairs \ RatedPairs(RatingsOf(a.ratings)) :
                  /\ Stored(after, p) = Stored(Self, p)
                  /\ p[2] \in after.user_items[p[1]] <=> p[2] \in user_items[p[1]]
                  /\ p[1] \in after.item_users[p[2]] <=> p[1] \in item_users[p[2]]
                  /\ after.rating_contexts[p] = rating_contexts[p]

\* an update returned after adding a second user to the one an earlier call
\* registered, and _ratings holds a rating from that earlier call
C7_Witness ==
    /\ op = "update"
    /\ err = "none"
    /\ Len(users) = 2
    /\ \E p \in Pairs : HasRating(Self, p)

\* C8 (as claimed): the rating held for a pair is the one the pair has in
\* the ratings of the most recent update or reset whose ratings held the
\* pair, and a pair holds one value.
C8_LatestRatingHeld ==
    /\ \A p \in Pairs : HasRating(Self, p) => Stored(Self, p) = latest[p]
    /\ Cardinality(Keys(ratings)) = Len(ratings)

IsPrefix(q, r) == Len(q) <= Len(r) /\ SubSeq(r, 1, Len(q)) = q

\* C9 (as claimed): the context history of a pair only grows at its end, by
\* one context for each rating written for the pair, and its length is the
\* number of ratings written for the pair.
C9_ContextHistoryAppendOnly ==
    [][\A p \in Pairs :
          /\ op' = "update" =>
                /\ IsPrefix(rating_contexts[p], rating_contexts'[p])
                /\ Len(rating_contexts'[p]) - Len(rating_contexts[p])
                      = writes'[p] - writes[p]
          /\ Len(rating_contexts'[p]) = writes'[p]]_vars

\* C16: update called a second time with the users and items of the first
\* call leaves the recommender as the first call left it, every id of the
\* call holds the feature vector of the call, and no id has two entries.
C16_ReRegistrationIdempotent ==
    \A a \in CallArgs :
        a.ratings = None =>
            LET once == After(a)
                twice == PredictRecommender_update(once, a.users, a.items, None)
            IN  /\ twice = once
                /\ \A k \in DOMAIN a.users :
                      DictGet(once.users, a.users[k][1]) = a.users[k][2]
                /\ \A k \in DOMAIN a.items :
                      DictGet(once.items, a.items[k][1]) = a.items[k][2]
                /\ Cardinality(Keys(once.users)) = Len(once.users)
                /\ Cardinality(Keys(once.items)) = Len(once.items)

\* the second update of a recommender returned, it holds user 0 with
\* feature 1, and the update of user 0 with feature 1 leaves it as it is
C16_Witness ==
    /\ op = "update"
    /\ err = "none"
    /\ calls = 2
    /\ users = <<<<IntId(0), 1>>>>
    /\ \E a \in CallArgs : a.ratings = None /\ a.users = users /\ After(a) = Self

\* the users and the items the rating store can be read at
StoreUsers == {k[1] : k \in Keys(ratings)}
StoreItems == {k[2] : k \in Keys(ratings)}

\* C23 (as claimed): after a reset or update that returned, the rating
\* store can be read at every known user and at every known item, also at
\* those without a rating.
C23_KnownIdsAddressable ==
    (op \in {"reset", "update"} /\ err = "none")
    => /\ Keys(users) \subseteq StoreUsers
       /\ Keys(items) \subseteq StoreItems

(***************************************************************************)
(* Claims about recommend (Spec), stated for every call of recommend the   *)
(* model can make in the state and every answer predict can give.          *)
(***************************************************************************)
\* the items of the request made to predict for the user
ScoredFor(r, user_id) ==
    {r.ratings_to_predict[k][2] :
        k \in {j \in DOMAIN r.ratings_to_predict :
                  r.ratings_to_predict[j][1] = user_id}}

\* the known items the user has not rated
Candidates(user_id) == Keys(items) \ user_items[user_id]

\* every user of the request is known, has an int id and has at least k
\* candidates
Servable(user_contexts, k) ==
    \A n \in DOMAIN user_contexts :
        /\ user_contexts[n][1] \in Keys(users)
        /\ isinstance_int(user_contexts[n][1])
        /\ Cardinality(Candidates(user_contexts[n][1])) >= k

\* C10 (as claimed): recommend asks predict to score, for every user of the
\* request, exactly the known items the user has not rated, and every item
\* it returns for the user is one of them.
C10_RecommendsKnownUnrated ==
    \A uc \in UserContextArgs, k \in 1..MaxRecs, predictions \in PredictionsArgs :
        LET r == recommend(Self, uc, k, predictions) IN
        \A n \in DOMAIN uc :
            /\ ScoredFor(r, uc[n][1]) = Candidates(uc[n][1])
            /\ r.err = "none" => Range(r.recs[n]) \subseteq Candidates(uc[n][1])

\* C11 (as claimed): for users with at least num_recommendations
\* candidates recommend returns, for each of them, num_recommendations
\* candidates, and no candidate left out has a predicted rating greater
\* than one returned.
C11_TopPredictedReturned ==
    \A uc \in UserContextArgs, k \in 1..MaxRecs, predictions \in PredictionsArgs :
        Servable(uc, k) =>
            LET r == recommend(Self, uc, k, predictions) IN
            /\ r.err = "none"
            /\ \A n \in DOMAIN uc :
                  LET u == uc[n][1] IN
                  /\ Len(r.recs[n]) = k
                  /\ Range(r.recs[n]) \subseteq Candidates(u)
                  /\ \A i \in Range(r.recs[n]), j \in Candidates(u) \ Range(r.recs[n]) :
                        predictions[<<u, j>>] <= predictions[<<u, i>>]

\* C12 (as claimed): recommend returns two arrays with one row for each
\* user of the request, in the order of the request, and
\* predicted_ratings[i][j] is the rating predict gave for user i and item
\* recs[i][j].
C12_OutputsAligned ==
    \A uc \in UserContextArgs, k \in 1..MaxRecs, predictions \in PredictionsArgs :
        Servable(uc, k) =>
            LET r == recommend(Self, uc, k, predictions) IN
            /\ r.err = "none"
            /\ Len(r.recs) = Len(uc)
            /\ Len(r.predicted_ratings) = Len(uc)
            /\ \A n \in DOMAIN uc :
                  /\ Len(r.predicted_ratings[n]) = Len(r.recs[n])
                  /\ \A j \in DOMAIN r.recs[n] :
                        r.predicted_ratings[n][j]
                            = predictions[<<uc[n][1], r.recs[n][j]>>]

(***************************************************************************)
(* Claims about the functions of knn_recommender.py (SpecFn).              *)
(***************************************************************************)
\* C21: nlargest_indices(n, values) has min(n, len(values)) distinct
\* indices of values, in descending order of value with the smaller index
\* first among equal values, and no index left out has a value greater than
\* one taken.
C21_NLargestStable ==
    op = "nlargest_indices" =>
        LET n == args[2]
            values == args[3]
            largest == result
            taken == {largest[p] : p \in DOMAIN largest}
            value(k) == values[k + 1]
        IN  /\ Len(largest) = IF n < Len(values) THEN n ELSE Len(values)
            /\ taken \subseteq 0..(Len(values) - 1)
            /\ Cardinality(taken) = Len(largest)
            /\ \A p \in DOMAIN largest, q \in DOMAIN largest :
                  p < q => /\ value(largest[p]) >= value(largest[q])
                           /\ value(largest[p]) > value(largest[q])
                                  \/ largest[p] < largest[q]
            /\ \A k \in (0..(Len(values) - 1)) \ taken, l \in taken :
                  /\ value(l) >= value(k)
                  /\ value(l) > value(k) \/ l < k

\* two indices were taken of three values, the greatest of them held twice
C21_Witness ==
    /\ op = "nlargest_indices"
    /\ args[2] = 2
    /\ Len(args[3]) = 3
    /\ args[3][2] = args[3][3]
    /\ args[3][1] < args[3][2]
    /\ Len(result) = 2

\* C22 (as claimed): divide_zero(num, denom) returns, for every num, an
\* array with 0 at every element whose denominator is 0 and num / denom at
\* every other, and cosine_similarity returns similarity 0 for every pair
\* of rows whose norm product plus shrinkage is 0.
C22_SafeDivide ==
    /\ op = "divide_zero" =>
          /\ err = "none"
          /\ DOMAIN result = DOMAIN args[2].val
          /\ \A k \in DOMAIN result :
                LET q == result[k]
                    x == args[2].val[k]
                    d == args[3].val[k]
                IN  /\ q[2] > 0
                    /\ d = 0 => q[1] = 0
                    /\ d # 0 => q[1] * d = x * q[2]
    /\ op = "cosine_similarity" =>
          /\ err = "none"
          /\ \A i \in 0..(args[2].shape[1] - 1), j \in 0..(args[3].shape[1] - 1) :
                LET x == Row(args[2], i)
                    y == Row(args[3], j)
                    shrinkage == args[4]
                IN  Norm(x) * Norm(y) + shrinkage = 0
                        => result[<<i, j>>][1] = 0 /\ result[<<i, j>>][2] > 0

====
